---- MODULE Spec2Model ----
(***************************************************************************)
(* Model of the Riyasewana vehicle-listing scraper: the run entry point    *)
(* (src/main.py), the crawl orchestration and the record extractors        *)
(* (src/src/riyasewana_scraper.py), the URL helper (src/src/utils.py) and  *)
(* the SQLite storage manager (src/src/db_manager.py).                     *)
(***************************************************************************)
EXTENDS Integers, Sequences, FiniteSets, TLC

(***************************************************************************)
(* Bounds of the model.                                                    *)
(***************************************************************************)
\* listing items on one listing page
MaxItems == 2
\* listing items the site serves in all, over the pages of all pairs
MaxSiteItems == 3
\* failures the environment injects in one run
MaxFailures == 1
\* largest configured batch size
MaxBatchSize == 2
\* insert calls made on the store on its own, and records in one such call
MaxCalls == 2
MaxCallLen == 2
\* text boxes in a listing item handed to the overview extractor on its own
MaxBoxes == 2
\* table cells on a detail page handed to the detail extractor on its own
MaxCells == 4

(***************************************************************************)
(* Strings: Python's str operations used by the code.                      *)
(***************************************************************************)
\* txt[i:j] of Python for 0 <= i <= j <= len(txt), with 1-based bounds i+1..j
Slice(txt, i, j) == IF i > j THEN "" ELSE SubSeq(txt, i, j)

\* needle in txt
Contains(needle, txt) ==
    \E i \in 1..(Len(txt) - Len(needle) + 1) :
        SubSeq(txt, i, i + Len(needle) - 1) = needle

\* txt.startswith(prefix)
StartsWith(txt, prefix) ==
    /\ Len(prefix) <= Len(txt)
    /\ Slice(txt, 1, Len(prefix)) = prefix

\* txt.find(c) for a one-character c, 1-based; 0 when c does not occur
Find(txt, c) ==
    IF \E i \in 1..Len(txt) : SubSeq(txt, i, i) = c
    THEN CHOOSE i \in 1..Len(txt) :
            /\ SubSeq(txt, i, i) = c
            /\ \A j \in 1..(i - 1) : SubSeq(txt, j, j) # c
    ELSE 0

\* txt.rfind(c), 1-based; 0 when c does not occur
RFind(txt, c) ==
    IF \E i \in 1..Len(txt) : SubSeq(txt, i, i) = c
    THEN CHOOSE i \in 1..Len(txt) :
            /\ SubSeq(txt, i, i) = c
            /\ \A j \in (i + 1)..Len(txt) : SubSeq(txt, j, j) # c
    ELSE 0

UpperChars == <<"A", "B", "C", "D", "E", "F", "G", "H", "I", "J", "K", "L", "M",
                "N", "O", "P", "Q", "R", "S", "T", "U", "V", "W", "X", "Y", "Z">>
LowerChars == <<"a", "b", "c", "d", "e", "f", "g", "h", "i", "j", "k", "l", "m",
                "n", "o", "p", "q", "r", "s", "t", "u", "v", "w", "x", "y", "z">>

LowerChar(c) ==
    IF \E k \in 1..Len(UpperChars) : UpperChars[k] = c
    THEN LowerChars[CHOOSE k \in 1..Len(UpperChars) : UpperChars[k] = c]
    ELSE c

\* txt.lower()
RECURSIVE Lower(_)
Lower(txt) ==
    IF txt = "" THEN ""
    ELSE LowerChar(SubSeq(txt, 1, 1)) \o Lower(Slice(txt, 2, Len(txt)))

\* txt.strip() for the blank character
RECURSIVE Strip(_)
Strip(txt) ==
    IF txt = "" THEN ""
    ELSE IF SubSeq(txt, 1, 1) = " " THEN Strip(Slice(txt, 2, Len(txt)))
    ELSE IF SubSeq(txt, Len(txt), Len(txt)) = " " THEN Strip(Slice(txt, 1, Len(txt) - 1))
    ELSE txt

(***************************************************************************)
(* urllib.parse.urljoin, as safe_urljoin calls it.  A reference is split   *)
(* into scheme, netloc and path; the references of the model carry no      *)
(* query, fragment or dot segments.                                        *)
(***************************************************************************)
SchemeChars == {LowerChars[k] : k \in 1..Len(LowerChars)}

\* urlsplit: the netloc ends at the first "/" of what follows "//", at slash
SplitAtSlash(scheme, after, slash) ==
    [scheme |-> scheme,
     netloc |-> IF slash = 0 THEN after ELSE Slice(after, 1, slash - 1),
     path |-> IF slash = 0 THEN "" ELSE Slice(after, slash, Len(after))]

\* urlsplit: rest is the reference after its scheme
SplitNetloc(scheme, rest) ==
    IF StartsWith(rest, "//")
    THEN SplitAtSlash(scheme, Slice(rest, 3, Len(rest)), Find(Slice(rest, 3, Len(rest)), "/"))
    ELSE [scheme |-> scheme, netloc |-> "", path |-> rest]

\* urlsplit: colon is the place of the first ":" of url; a scheme is made of
\* letters
SplitScheme(url, default_scheme, colon) ==
    IF /\ colon > 1
       /\ \A j \in 1..(colon - 1) : LowerChar(SubSeq(url, j, j)) \in SchemeChars
    THEN SplitNetloc(Lower(Slice(url, 1, colon - 1)), Slice(url, colon + 1, Len(url)))
    ELSE SplitNetloc(default_scheme, url)

\* urlsplit(url, default_scheme)
UrlSplit(url, default_scheme) == SplitScheme(url, default_scheme, Find(url, ":"))

\* urlunsplit of a reference with a scheme that uses a netloc
UrlUnsplit(parts) ==
    LET loc == IF parts.netloc # "" \/ ~StartsWith(parts.path, "//")
               THEN "//" \o parts.netloc \o parts.path
               ELSE parts.path
    IN  IF parts.scheme # "" THEN parts.scheme \o ":" \o loc ELSE loc

\* the scheme every URL of the model has: one that is relative and has a netloc
UsesRelativeAndNetloc == {"http", "https"}

\* urljoin: the base path up to its last "/", at cut
BaseDir(path, cut) == IF cut = 0 THEN "/" ELSE Slice(path, 1, cut)

\* urljoin, with b the split base and u the split reference
JoinSplit(b, u, url) ==
    IF u.scheme # b.scheme \/ u.scheme \notin UsesRelativeAndNetloc THEN url
    ELSE IF u.netloc # "" THEN UrlUnsplit(u)
    ELSE IF u.path = ""
         THEN UrlUnsplit([scheme |-> u.scheme, netloc |-> b.netloc, path |-> b.path])
    ELSE IF StartsWith(u.path, "/")
         THEN UrlUnsplit([scheme |-> u.scheme, netloc |-> b.netloc, path |-> u.path])
    ELSE UrlUnsplit([scheme |-> u.scheme, netloc |-> b.netloc,
                     path |-> BaseDir(b.path, RFind(b.path, "/")) \o u.path])

\* urljoin, with b the split base
JoinBase(b, url) == JoinSplit(b, UrlSplit(url, b.scheme), url)

urljoin(base, url) ==
    IF url = "" THEN base
    ELSE IF base = "" THEN url
    ELSE JoinBase(UrlSplit(base, ""), url)

safe_urljoin(base, url) == urljoin(base, url)

(***************************************************************************)
(* Configuration (src/src/config.py).                                      *)
(***************************************************************************)
RIYASWANA_BASE_URL == "https://riyasewana.com"

(***************************************************************************)
(* Python dicts: functions from a set of keys.                             *)
(***************************************************************************)
EmptyDict == [k \in {} |-> ""]

\* {**a, **b}: the keys of both, b's value where both have the key
Merge(a, b) ==
    [k \in (DOMAIN a) \cup (DOMAIN b) |-> IF k \in DOMAIN b THEN b[k] ELSE a[k]]

\* d.get(k, default)
Get(d, k, default) == IF k \in DOMAIN d THEN d[k] ELSE default

\* d[k] = v
Put(d, k, v) == [j \in (DOMAIN d) \cup {k} |-> IF j = k THEN v ELSE d[j]]

\* Python's None, as d.get(k) returns it for a missing key
None == "<None>"

(***************************************************************************)
(* Markup.  The element-query layer is opaque: a listing item is what its  *)
(* queries return (the anchor under h2, the img, the date div, the texts   *)
(* of the boxintxt divs, in document order); a detail page is the texts of *)
(* the cells its selector returns, in document order.                      *)
(***************************************************************************)
\* a listing item; raises: its first query raises AttributeError
Li(raises, has_a, a_text, has_href, href, has_src, src, has_date, date, boxes) ==
    [raises |-> raises, has_a |-> has_a, a_text |-> a_text,
     has_href |-> has_href, href |-> href,
     has_src |-> has_src, src |-> src,
     has_date |-> has_date, date |-> date, boxes |-> boxes]

\* RiyasewanaScraper._extract_listing_details: the classification of the text boxes
RECURSIVE ClassifyBoxes(_, _)
ClassifyBoxes(data, boxes) ==
    IF boxes = <<>> THEN data
    ELSE LET txt == Strip(Head(boxes))
             next ==
                IF Contains("km", Lower(txt)) THEN Put(data, "mileage", txt)
                ELSE IF Contains("rs", Lower(txt)) \/ Contains("negotiable", Lower(txt))
                     THEN Put(data, "overview_price", txt)
                ELSE IF txt # "" /\ txt \notin {data["overview_price"], data["mileage"], data["date"]}
                     THEN Put(data, "location", txt)
                ELSE data
         IN  ClassifyBoxes(next, Tail(boxes))

\* RiyasewanaScraper._extract_listing_details
_extract_listing_details(li_tag) ==
    IF li_tag.raises THEN EmptyDict
    ELSE LET post_url_relative == IF li_tag.has_a /\ li_tag.has_href THEN li_tag.href ELSE ""
             image_url_relative == IF li_tag.has_src THEN Strip(li_tag.src) ELSE ""
             data == [title |-> IF li_tag.has_a THEN Strip(li_tag.a_text) ELSE "",
                      post_url |-> safe_urljoin(RIYASWANA_BASE_URL, post_url_relative),
                      image_url |-> safe_urljoin("https:", image_url_relative),
                      date |-> IF li_tag.has_date THEN Strip(li_tag.date) ELSE "",
                      location |-> "",
                      overview_price |-> "",
                      mileage |-> ""]
         IN  ClassifyBoxes(data, li_tag.boxes)

\* RiyasewanaScraper._extract_post_details: the label -> value map of the cells
RECURSIVE DetailsMap(_, _)
DetailsMap(details_map, all_cells) ==
    IF Len(all_cells) < 2 THEN details_map
    ELSE DetailsMap(Put(details_map, Lower(Strip(all_cells[1])), Strip(all_cells[2])),
                    SubSeq(all_cells, 3, Len(all_cells)))

\* RiyasewanaScraper._extract_post_details: details, filled from the map
ProjectDetails(details_map) ==
    [engine_cc |-> Get(details_map, "engine (cc)", ""),
     yom |-> Get(details_map, "yom", ""),
     post_make |-> Get(details_map, "make", ""),
     model |-> Get(details_map, "model", ""),
     detail_price |-> Get(details_map, "price", ""),
     gear |-> Get(details_map, "gear", ""),
     fuel_type |-> Get(details_map, "fuel type", "")]

\* RiyasewanaScraper._extract_post_details: fetched says whether driver.get and
\* the parse went through; a failure is logged and leaves details as created
_extract_post_details(fetched, all_cells) ==
    IF fetched THEN ProjectDetails(DetailsMap(EmptyDict, all_cells)) ELSE EmptyDict

DetailFields ==
    {"engine_cc", "yom", "post_make", "model", "detail_price", "gear", "fuel_type"}

(***************************************************************************)
(* Storage (src/src/db_manager.py): the rows of table listings.            *)
(***************************************************************************)
Columns ==
    {"date", "make", "type", "title", "location", "mileage", "overview_price",
     "detail_price", "engine_cc", "yom", "post_make", "model", "gear", "fuel_type",
     "post_url", "image_url"}

\* DatabaseManager.insert_listings_batch: the tuple bound for one listing
ToRow(data) == [c \in Columns |-> Get(data, c, "")]

\* an INSERT that knows no uniqueness
InsertAll(rows, data_tuples) == rows \cup {data_tuples[i] : i \in DOMAIN data_tuples}

\* INSERT OR IGNORE of the tuples, in order, under UNIQUE(post_url)
RECURSIVE InsertOrIgnore(_, _)
InsertOrIgnore(rows, data_tuples) ==
    IF data_tuples = <<>> THEN rows
    ELSE LET t == Head(data_tuples)
             kept == IF \E r \in rows : r.post_url = t.post_url THEN rows ELSE rows \cup {t}
         IN  InsertOrIgnore(kept, Tail(data_tuples))

\* DatabaseManager.insert_listings_batch on rows: the rows afterwards and the
\* value returned, for a call that ends "ok", in a caught "sqlite_error", or
\* "raised" (the rollback of the handler raises in its turn)
insert_listings_batch(rows, listings_data, outcome) ==
    IF listings_data = <<>> THEN [rows |-> rows, inserted_count |-> 0]
    ELSE IF outcome = "ok"
    THEN LET after == InsertOrIgnore(rows, [i \in 1..Len(listings_data) |-> ToRow(listings_data[i])])
         IN  [rows |-> after, inserted_count |-> Cardinality(after) - Cardinality(rows)]
    ELSE [rows |-> rows, inserted_count |-> 0]

\* a ledger query that returns no URL
get_no_post_urls(rows, ok) == {}

\* DatabaseManager.get_all_post_urls
get_all_post_urls(rows, ok) ==
    IF ok THEN {r.post_url : r \in {q \in rows : q.post_url # ""}} ELSE {}

(***************************************************************************)
(* The remote site, as far as the model explores it.                       *)
(***************************************************************************)
LiA == Li(FALSE, TRUE, " Axio ", TRUE, "/buy/a", TRUE, "//img.riyasewana.com/a.jpg",
          TRUE, "2025-01-02", <<"Galle", "Rs. 5", "9 km">>)
LiB == Li(FALSE, TRUE, "Alto", TRUE, "https://riyasewana.com/buy/b", FALSE, "",
          FALSE, "", <<>>)
LiC == Li(FALSE, TRUE, "Vitz", TRUE, "buy/c", FALSE, "", FALSE, "", <<"Negotiable">>)
LiNoAnchor == Li(FALSE, FALSE, "", FALSE, "", FALSE, "", FALSE, "", <<>>)
LiNoHref == Li(FALSE, TRUE, "", FALSE, "", FALSE, "", FALSE, "", <<>>)
LiEmptyHref == Li(FALSE, TRUE, "", TRUE, "", FALSE, "", FALSE, "", <<>>)
LiBroken == Li(TRUE, FALSE, "", FALSE, "", FALSE, "", FALSE, "", <<>>)

UrlA == "https://riyasewana.com/buy/a"
UrlB == "https://riyasewana.com/buy/b"
UrlC == "https://riyasewana.com/buy/c"

\* the listing items a listing page of the general crawl is made of
CrawlItems == {LiA, LiB, LiNoAnchor, LiNoHref, LiEmptyHref, LiBroken}

\* the cells of the detail page at a URL
DetailCells(url) ==
    IF url = UrlA
    THEN <<"YOM", "2015", "Make", "Toyota", "Model", "Axio", "Price", "Rs. 5",
           "Gear", "Auto", "Fuel Type", "Petrol", "Engine (cc)", "1500">>
    ELSE IF url = UrlB
    THEN <<" yom ", "2010", "Gear">>
    ELSE <<>>

\* the extractors, tabulated once for the items and the URLs of the site
AllItems == CrawlItems \cup {LiC}
AllUrls == {RIYASWANA_BASE_URL, UrlA, UrlB, UrlC}
OverviewOf == [li \in AllItems |-> _extract_listing_details(li)]
DetailsOf == [fetched \in BOOLEAN, url \in AllUrls |-> _extract_post_details(fetched, DetailCells(url))]

\* a fetched listing page: whether div#content holds a ul, and the listing
\* items find_all returns
PageOf(container, items) == [container |-> container, items |-> items]

ItemLists(n) == UNION {[1..k -> CrawlItems] : k \in 1..n}

Min(a, b) == IF a <= b THEN a ELSE b

\* what the fetch of a listing page not fetched before may return, when the
\* site has left listing items to serve
PageContents(left) ==
    {PageOf(FALSE, <<>>), PageOf(TRUE, <<>>)}
    \cup {PageOf(TRUE, items) : items \in ItemLists(Min(MaxItems, left))}

(***************************************************************************)
(* State.                                                                  *)
(***************************************************************************)
VARIABLES
    \* RiyasewanaScraper.__init__: configuration
    vehicle_makes, vehicle_types, batch_size,
    \* the environment: the site's listing pages fetched so far (kept when a
    \* later run reads them again), the stored rows, the failures left to
    \* inject in this run, the runs still to come after this one, the listing
    \* items the site has yet to serve
    site, db, fail_budget, runs_left, site_items_left,
    \* run() of src/main.py: position, and its locals driver and db_manager;
    \* conn is the state of the SQLite connection
    pc, driver, db_manager, conn,
    \* RiyasewanaScraper.seen_urls
    seen_urls,
    \* locals of scrape_site
    all_new_listings_scraped, current_batch_for_db, make_i, type_i, page,
    li_tags, new_listings_on_page,
    \* how scrape_site and run ended: "none", "list" or "raised"
    returned, run_ended,
    \* history of the run: the ledger as seeded, the listing-page fetches, the
    \* detail-page fetches, the insert_listings_batch calls, the kinds of
    \* failure that occurred, whether the last fetch was followed by no delay
    startup_seen, page_fetches, detail_fetches, batches, failures, undelayed,
    \* more history: the ledger when the current listing page was fetched, and
    \* the post_url values of the items skipped so far
    seen_at_fetch, skipped,
    \* how the pagination of each pair visited so far ended
    pair_ends,
    \* the previous run, when there was one: whether it ran, and its failures
    prior

config_vars == <<vehicle_makes, vehicle_types, batch_size>>
env_vars == <<site, db, fail_budget, runs_left, site_items_left>>
run_vars == <<driver, db_manager, conn>>
crawl_vars == <<all_new_listings_scraped, current_batch_for_db, make_i, type_i, page,
                li_tags, new_listings_on_page>>
hist_vars == <<startup_seen, page_fetches, detail_fetches, batches, failures, undelayed,
               seen_at_fetch, skipped, pair_ends>>
vars == <<config_vars, env_vars, pc, run_vars, seen_urls, crawl_vars, returned,
          run_ended, hist_vars, prior>>

make == vehicle_makes[make_i]
vehicle_type == vehicle_types[type_i]

NoPriorRun == [ran |-> FALSE, failures |-> {}]

\* the state run() starts in
RunStart ==
    /\ pc = "setup_driver"
    /\ driver = "none" /\ db_manager = FALSE /\ conn = "none"
    /\ seen_urls = {}
    /\ all_new_listings_scraped = <<>> /\ current_batch_for_db = <<>>
    /\ make_i = 1 /\ type_i = 1 /\ page = 1
    /\ li_tags = <<>> /\ new_listings_on_page = 0
    /\ returned = "none" /\ run_ended = "none"
    /\ startup_seen = {} /\ page_fetches = <<>> /\ detail_fetches = <<>>
    /\ batches = <<>> /\ failures = {} /\ undelayed = FALSE
    /\ seen_at_fetch = {} /\ skipped = {} /\ pair_ends = <<>>

\* a listing stored by an earlier run
StoredA ==
    ToRow(Merge(Merge(OverviewOf[LiA], DetailsOf[TRUE, UrlA]),
                [make |-> "toyota", type |-> "cars"]))

\* the configured makes and types: two pairs, of two makes or of two types
Configs ==
    {[makes |-> <<"toyota", "nissan">>, types |-> <<"cars">>],
     [makes |-> <<"toyota">>, types |-> <<"cars", "vans">>]}

Init ==
    /\ \E config \in Configs :
        /\ vehicle_makes = config.makes
        /\ vehicle_types = config.types
    /\ batch_size \in 1..MaxBatchSize
    /\ site = <<>>
    /\ db \in {{}, {StoredA}}
    /\ fail_budget = MaxFailures
    /\ runs_left = 0
    /\ site_items_left = MaxSiteItems
    /\ prior = NoPriorRun
    /\ RunStart

(***************************************************************************)
(* run() of src/main.py: setup.                                            *)
(***************************************************************************)
\* driver = setup_driver(); a failure goes to the except clause, then finally
SetupDriver ==
    /\ pc = "setup_driver"
    /\ \E ok \in BOOLEAN :
        /\ ok \/ fail_budget > 0
        /\ driver' = IF ok THEN "open" ELSE "none"
        /\ pc' = IF ok THEN "db_init" ELSE "finally"
        /\ failures' = IF ok THEN failures ELSE failures \cup {"setup_driver"}
        /\ fail_budget' = IF ok THEN fail_budget ELSE fail_budget - 1
    /\ UNCHANGED <<config_vars, site, db, runs_left, site_items_left, db_manager, conn, seen_urls,
                   crawl_vars, returned, run_ended, startup_seen, page_fetches,
                   detail_fetches, batches, undelayed, seen_at_fetch, skipped, pair_ends, prior>>

\* db_manager = DatabaseManager(): _connect, then create_table; either may
\* raise, and then run()'s local db_manager stays None
DatabaseManagerInit ==
    /\ pc = "db_init"
    /\ \E outcome \in {"ok", "connect_error", "create_table_error"} :
        /\ outcome = "ok" \/ fail_budget > 0
        /\ conn' = IF outcome = "connect_error" THEN "none" ELSE "open"
        /\ db_manager' = (outcome = "ok")
        /\ pc' = IF outcome = "ok" THEN "scraper_init" ELSE "finally"
        /\ failures' = IF outcome = "ok" THEN failures ELSE failures \cup {outcome}
        /\ fail_budget' = IF outcome = "ok" THEN fail_budget ELSE fail_budget - 1
    /\ UNCHANGED <<config_vars, site, db, runs_left, site_items_left, driver, seen_urls, crawl_vars,
                   returned, run_ended, startup_seen, page_fetches, detail_fetches,
                   batches, undelayed, seen_at_fetch, skipped, pair_ends, prior>>

\* RiyasewanaScraper(driver, db_manager): the ledger is seeded from storage
\* (the empty set when the query fails), and scrape_site is entered
ScraperInit ==
    /\ pc = "scraper_init"
    /\ \E ok \in BOOLEAN :
        /\ ok \/ fail_budget > 0
        /\ seen_urls' = get_all_post_urls(db, ok)
        /\ startup_seen' = get_all_post_urls(db, ok)
        /\ failures' = IF ok THEN failures ELSE failures \cup {"ledger_error"}
        /\ fail_budget' = IF ok THEN fail_budget ELSE fail_budget - 1
    /\ pc' = "fetch"
    /\ UNCHANGED <<config_vars, site, db, runs_left, site_items_left, run_vars, crawl_vars, returned,
                   run_ended, page_fetches, detail_fetches, batches, undelayed, seen_at_fetch, skipped, pair_ends, prior>>

(***************************************************************************)
(* RiyasewanaScraper.scrape_site.                                          *)
(***************************************************************************)
\* a URL that carries the page parameter on every page
PageUrlAlways(p) ==
    RIYASWANA_BASE_URL \o "/search/" \o vehicle_type \o "/" \o make
        \o "?page=" \o ToString(p)

\* the URL of listing page p of the current pair
PageUrl(p) ==
    LET url == RIYASWANA_BASE_URL \o "/search/" \o vehicle_type \o "/" \o make
    IN  IF p > 1 THEN url \o "?page=" \o ToString(p) ELSE url

\* break out of the pagination loop: on to the next type, then the next
\* make, then the final flush (the locals of the page left behind are reset)
Break(reason) ==
    /\ pair_ends' = Append(pair_ends, [make |-> make, type |-> vehicle_type,
                                       page |-> page, reason |-> reason])
    /\ page' = 1
    /\ li_tags' = <<>>
    /\ new_listings_on_page' = 0
    /\ IF type_i < Len(vehicle_types)
       THEN make_i' = make_i /\ type_i' = type_i + 1 /\ pc' = "fetch"
       ELSE IF make_i < Len(vehicle_makes)
       THEN make_i' = make_i + 1 /\ type_i' = 1 /\ pc' = "fetch"
       ELSE make_i' = make_i /\ type_i' = type_i /\ pc' = "flush"

\* a failed fetch after which the crawl tries the next page of the same pair
FetchListingPageFailsAndGoesOn ==
    /\ pc = "fetch"
    /\ fail_budget > 0
    /\ fail_budget' = fail_budget - 1
    /\ failures' = failures \cup {"page_fetch"}
    /\ page_fetches' = Append(page_fetches,
            [make |-> make, type |-> vehicle_type, page |-> page,
             url |-> PageUrl(page), ok |-> FALSE])
    /\ undelayed' = TRUE
    /\ page' = page + 1
    /\ UNCHANGED <<config_vars, site, db, runs_left, site_items_left, pc, run_vars,
                   seen_urls, all_new_listings_scraped, current_batch_for_db, make_i,
                   type_i, li_tags, new_listings_on_page, returned, run_ended,
                   startup_seen, detail_fetches, batches, seen_at_fetch, skipped,
                   pair_ends, prior>>

\* driver.get(url) raises: logged, pagination of the pair ends
FetchListingPageFails ==
    /\ pc = "fetch"
    /\ fail_budget > 0
    /\ fail_budget' = fail_budget - 1
    /\ failures' = failures \cup {"page_fetch"}
    /\ page_fetches' = Append(page_fetches,
            [make |-> make, type |-> vehicle_type, page |-> page,
             url |-> PageUrl(page), ok |-> FALSE])
    /\ undelayed' = TRUE
    /\ Break("fetch_error")
    /\ UNCHANGED <<config_vars, site, db, runs_left, site_items_left, run_vars, seen_urls,
                   all_new_listings_scraped, current_batch_for_db, returned,
                   run_ended, startup_seen, detail_fetches, batches, seen_at_fetch,
                   skipped, prior>>

\* a test for items that never sees an empty list
NoListingItemsNever(items) == FALSE

\* "if not li_tags"
NoListingItems(items) == items = <<>>

\* driver.get(url), the delay, the parse, and the look for ul and items
FetchListingPage ==
    /\ pc = "fetch"
    /\ LET key == <<make, vehicle_type, page>>
           known == key \in DOMAIN site
       IN  \E content \in (IF known THEN {site[key]} ELSE PageContents(site_items_left)) :
            /\ site' = IF runs_left > 0 THEN Put(site, key, content) ELSE site
            /\ site_items_left' = IF known THEN site_items_left
                                  ELSE site_items_left - Len(content.items)
            /\ IF ~content.container
               THEN Break("no_container")
               ELSE IF NoListingItems(content.items)
               THEN Break("no_items")
               ELSE /\ li_tags' = content.items
                    /\ new_listings_on_page' = 0
                    /\ pc' = "items"
                    /\ UNCHANGED <<make_i, type_i, page, pair_ends>>
    /\ page_fetches' = Append(page_fetches,
            [make |-> make, type |-> vehicle_type, page |-> page,
             url |-> PageUrl(page), ok |-> TRUE])
    /\ undelayed' = FALSE
    /\ seen_at_fetch' = seen_urls
    /\ UNCHANGED <<config_vars, db, fail_budget, runs_left, run_vars, seen_urls,
                   all_new_listings_scraped, current_batch_for_db, returned,
                   run_ended, startup_seen, detail_fetches, batches, failures,
                   skipped, prior>>

\* one call of insert_listings_batch, as the history keeps it
BatchCall(records, phase, outcome, inserted_count) ==
    [records |-> records, phase |-> phase, outcome |-> outcome,
     inserted_count |-> inserted_count]

\* a skip test that forgets the ledger
ShouldSkipEmptyOnly(post_url, seen) == post_url \in {None, ""}

\* "if not post_url or post_url in self.seen_urls"
ShouldSkip(post_url, seen) == post_url \in {None, ""} \/ post_url \in seen

\* a ledger that keeps the last URL only
MarkSeenOnly(seen, post_url) == {post_url}

\* "self.seen_urls.add(post_url)"
MarkSeen(seen, post_url) == seen \cup {post_url}

\* a threshold test that is late by one record
BatchIsFullLate(batch, size) == Len(batch) > size

\* "if len(current_batch_for_db) >= self.batch_size"
BatchIsFull(batch, size) == Len(batch) >= size

\* an end-of-results test that never ends the pagination
EndsPaginationNever(new_on_page, p) == FALSE

\* an end-of-results test that also spares page 2
EndsPaginationAfterSecondPage(new_on_page, p) == new_on_page = 0 /\ p > 2

\* "if new_listings_on_page == 0 and page > 1"
EndsPagination(new_on_page, p) == new_on_page = 0 /\ p > 1

\* a merge that takes the make from the detail page when it names one
FullListingDataPostMake(listing_overview_data, details_from_post) ==
    Merge(Merge(listing_overview_data, details_from_post),
          [make |-> Get(details_from_post, "post_make", make), type |-> vehicle_type])

\* {**listing_overview_data, **details_from_post, 'make': make, 'type': vehicle_type}
FullListingData(listing_overview_data, details_from_post) ==
    Merge(Merge(listing_overview_data, details_from_post),
          [make |-> make, type |-> vehicle_type])

\* a reset that keeps the batch sent
KeepBatch(batch) == batch

\* "current_batch_for_db = []" after the insert call
ResetBatch(batch) == <<>>

\* the rest of the body for an item that is not skipped: the detail page,
\* the merge, the appends, and the insert call when the batch is full
ProcessNewListing(post_url, full_listing_data, batch, fetched, outcome) ==
    LET full == BatchIsFull(batch, batch_size)
        injected == {k \in {"detail_fetch"} : ~fetched}
                    \cup {k \in {outcome} : full /\ outcome # "ok"}
    IN  /\ full \/ outcome = "ok"
        /\ Cardinality(injected) <= fail_budget
        /\ fail_budget' = fail_budget - Cardinality(injected)
        /\ failures' = failures \cup injected
        /\ seen_urls' = MarkSeen(seen_urls, post_url)
        /\ detail_fetches' = Append(detail_fetches, post_url)
        /\ undelayed' = ~fetched
        /\ all_new_listings_scraped' = Append(all_new_listings_scraped, full_listing_data)
        /\ new_listings_on_page' = new_listings_on_page + 1
        /\ db' = IF full THEN insert_listings_batch(db, batch, outcome).rows ELSE db
        /\ batches' =
            IF full
            THEN Append(batches,
                        BatchCall(batch, "crawl", outcome,
                                  insert_listings_batch(db, batch, outcome).inserted_count))
            ELSE batches
           \* an exception of the insert is caught with the detail errors:
           \* the reset of the batch is skipped
        /\ current_batch_for_db' = IF full /\ outcome # "raised" THEN ResetBatch(batch)
                                 ELSE batch
        /\ skipped' = skipped

\* the body for an item, from the skip test on
ProcessOverview(listing_overview_data, post_url) ==
    IF ShouldSkip(post_url, seen_urls)
    THEN /\ skipped' = skipped \cup {post_url}
         /\ UNCHANGED <<db, fail_budget, seen_urls, all_new_listings_scraped,
                        current_batch_for_db, new_listings_on_page,
                        detail_fetches, batches, failures, undelayed>>
    ELSE \E fetched \in BOOLEAN, outcome \in {"ok", "sqlite_error", "raised"} :
            \E full_listing_data \in
                    {FullListingData(listing_overview_data, DetailsOf[fetched, post_url])} :
                ProcessNewListing(post_url, full_listing_data,
                                  Append(current_batch_for_db, full_listing_data),
                                  fetched, outcome)

\* the body of "for li in li_tags" for the next item
ProcessListing ==
    /\ pc = "items"
    /\ li_tags # <<>>
    /\ li_tags' = Tail(li_tags)
    /\ \E listing_overview_data \in {OverviewOf[Head(li_tags)]} :
        ProcessOverview(listing_overview_data, Get(listing_overview_data, "post_url", None))
    /\ UNCHANGED <<config_vars, site, runs_left, site_items_left, pc, run_vars, make_i,
                   type_i, page, returned, run_ended, startup_seen, page_fetches,
                   seen_at_fetch, pair_ends, prior>>

\* after the last item of the page: end the pagination or go to the next page
EndOfPage ==
    /\ pc = "items"
    /\ li_tags = <<>>
    /\ IF EndsPagination(new_listings_on_page, page)
       THEN Break("no_new")
       ELSE /\ page' = page + 1
            /\ pc' = "fetch"
            /\ new_listings_on_page' = 0
            /\ UNCHANGED <<make_i, type_i, li_tags, pair_ends>>
    /\ UNCHANGED <<config_vars, env_vars, run_vars, seen_urls, all_new_listings_scraped,
                   current_batch_for_db, returned, run_ended, startup_seen, page_fetches,
                   detail_fetches, batches, failures, undelayed, seen_at_fetch, skipped,
                   prior>>

\* after all pairs: insert what is left in the batch, and return the list
FinalFlush ==
    /\ pc = "flush"
    /\ \E outcome \in {"ok", "sqlite_error", "raised"} :
        LET nonempty == current_batch_for_db # <<>>
            result == insert_listings_batch(db, current_batch_for_db, outcome)
            failed == nonempty /\ outcome # "ok"
        IN  /\ nonempty \/ outcome = "ok"
            /\ failed => fail_budget > 0
            /\ fail_budget' = IF failed THEN fail_budget - 1 ELSE fail_budget
            /\ failures' = IF failed THEN failures \cup {outcome} ELSE failures
            /\ db' = IF nonempty THEN result.rows ELSE db
            /\ batches' = IF nonempty
                          THEN Append(batches, BatchCall(current_batch_for_db, "flush", outcome,
                                                         result.inserted_count))
                          ELSE batches
            /\ returned' = IF nonempty /\ outcome = "raised" THEN "raised" ELSE "list"
    /\ pc' = "finally"
    /\ UNCHANGED <<config_vars, site, runs_left, site_items_left, run_vars, seen_urls, crawl_vars,
                   run_ended, startup_seen, page_fetches, detail_fetches, undelayed, seen_at_fetch, skipped, pair_ends, prior>>

(***************************************************************************)
(* run() of src/main.py: cleanup.                                          *)
(***************************************************************************)
\* a DatabaseManager whose __init__ raised after _connect: no name refers to it
Orphan == conn = "open" /\ ~db_manager

\* DatabaseManager.__del__ of the orphan, when the except clause of run() lets
\* go of the exception that referred to it
Finalizer ==
    /\ pc = "finally"
    /\ Orphan
    /\ conn' = "closed"
    /\ UNCHANGED <<config_vars, env_vars, pc, driver, db_manager, seen_urls, crawl_vars,
                   returned, run_ended, hist_vars, prior>>

\* the finally clause: driver.quit(), then db_manager.close(); an exception
\* of driver.quit() leaves run() at once
Finally ==
    /\ pc = "finally"
    /\ ~Orphan
    /\ \E ok \in BOOLEAN :
        LET quit_fails == driver = "open" /\ ~ok
        IN  /\ ok \/ (driver = "open" /\ fail_budget > 0)
            /\ driver' = IF driver # "open" THEN driver
                         ELSE IF ok THEN "quit" ELSE "quit_failed"
            /\ conn' = IF db_manager /\ ~quit_fails THEN "closed" ELSE conn
            /\ run_ended' = IF quit_fails THEN "raised" ELSE "returned"
            /\ failures' = IF quit_fails THEN failures \cup {"quit"} ELSE failures
            /\ fail_budget' = IF quit_fails THEN fail_budget - 1 ELSE fail_budget
    /\ pc' = "done"
    /\ UNCHANGED <<config_vars, site, db, runs_left, site_items_left, db_manager, seen_urls, crawl_vars,
                   returned, startup_seen, page_fetches, detail_fetches, batches,
                   undelayed, seen_at_fetch, skipped, pair_ends, prior>>

Next ==
    \/ SetupDriver
    \/ DatabaseManagerInit
    \/ ScraperInit
    \/ FetchListingPageFails
    \/ FetchListingPage
    \/ ProcessListing
    \/ EndOfPage
    \/ FinalFlush
    \/ Finalizer
    \/ Finally

Spec == Init /\ [][Next]_vars

\* run() is one thread of control: while a step is possible, one is taken
SpecFair == Spec /\ WF_vars(Next)

(***************************************************************************)
(* A second run of the pipeline against the same site and the same store.  *)
(***************************************************************************)
\* run() is entered again: the store and the site stay, the process is new
Rerun ==
    /\ pc = "done"
    /\ runs_left > 0
    /\ runs_left' = runs_left - 1
    /\ prior' = [ran |-> TRUE, failures |-> failures]
    /\ fail_budget' = MaxFailures
    /\ pc' = "setup_driver"
    /\ driver' = "none" /\ db_manager' = FALSE /\ conn' = "none"
    /\ seen_urls' = {}
    /\ all_new_listings_scraped' = <<>> /\ current_batch_for_db' = <<>>
    /\ make_i' = 1 /\ type_i' = 1 /\ page' = 1
    /\ li_tags' = <<>> /\ new_listings_on_page' = 0
    /\ returned' = "none" /\ run_ended' = "none"
    /\ startup_seen' = {} /\ page_fetches' = <<>> /\ detail_fetches' = <<>>
    /\ batches' = <<>> /\ failures' = {} /\ undelayed' = FALSE
    /\ seen_at_fetch' = {} /\ skipped' = {} /\ pair_ends' = <<>>
    /\ UNCHANGED <<config_vars, site, db, site_items_left>>

InitRerun ==
    /\ vehicle_makes = <<"toyota", "nissan">>
    /\ vehicle_types = <<"cars">>
    /\ batch_size \in 1..MaxBatchSize
    /\ site = <<>>
    /\ db \in {{}, {StoredA}}
    /\ fail_budget = MaxFailures
    /\ runs_left = 1
    /\ site_items_left = MaxSiteItems - 1
    /\ prior = NoPriorRun
    /\ RunStart

NextRerun ==
    \/ Next
    \/ Rerun

SpecRerun == InitRerun /\ [][NextRerun]_vars

(***************************************************************************)
(* Two makes and two types: four pairs.                                    *)
(***************************************************************************)
InitGrid ==
    /\ vehicle_makes = <<"toyota", "nissan">>
    /\ vehicle_types = <<"cars", "vans">>
    /\ batch_size \in 1..MaxBatchSize
    /\ site = <<>>
    /\ db = {}
    /\ fail_budget = MaxFailures
    /\ runs_left = 0
    /\ site_items_left = MaxSiteItems - 1
    /\ prior = NoPriorRun
    /\ RunStart

SpecGrid == InitGrid /\ [][Next]_vars

(***************************************************************************)
(* The scenario of one pair, batch size 2 and three new listings on page 1.*)
(***************************************************************************)
\* page 2 of the scenario holds no new listing
ScenarioSecondPages ==
    {PageOf(FALSE, <<>>), PageOf(TRUE, <<>>), PageOf(TRUE, <<LiB>>),
     PageOf(TRUE, <<LiC, LiA>>), PageOf(TRUE, <<LiBroken>>)}

InitScenario ==
    /\ vehicle_makes = <<"volvo">>
    /\ vehicle_types = <<"cars">>
    /\ batch_size = 2
    /\ \E second \in ScenarioSecondPages :
        site = [key \in {<<"volvo", "cars", 1>>, <<"volvo", "cars", 2>>} |->
                    IF key[3] = 1 THEN PageOf(TRUE, <<LiA, LiB, LiC>>) ELSE second]
    /\ db = {}
    /\ fail_budget = MaxFailures
    /\ runs_left = 0
    /\ site_items_left = 0
    /\ prior = NoPriorRun
    /\ RunStart

SpecScenario == InitScenario /\ [][Next]_vars

(***************************************************************************)
(* The storage manager on its own: insert calls of any content.            *)
(***************************************************************************)
\* the listings handed to the store: two with the same post_url, one with
\* another, one with none
StoreRecords ==
    {[post_url |-> UrlA, title |-> "Axio"], [post_url |-> UrlA, title |-> "Axio 2"],
     [post_url |-> UrlB, title |-> "Alto"], [title |-> "Vitz"]}

StoreCalls == UNION {[1..k -> StoreRecords] : k \in 0..MaxCallLen}

\* db_manager.insert_listings_batch(listings_data)
InsertListingsBatch ==
    /\ Len(batches) < MaxCalls
    /\ \E listings_data \in StoreCalls, outcome \in {"ok", "sqlite_error", "raised"} :
        /\ db' = insert_listings_batch(db, listings_data, outcome).rows
        /\ batches' = Append(batches,
                BatchCall(listings_data, "store", outcome,
                          insert_listings_batch(db, listings_data, outcome).inserted_count))
    /\ UNCHANGED <<config_vars, site, fail_budget, runs_left, site_items_left, pc,
                   run_vars, seen_urls, crawl_vars, returned, run_ended, startup_seen,
                   page_fetches, detail_fetches, failures, undelayed, seen_at_fetch,
                   skipped, pair_ends, prior>>

InitStore ==
    /\ vehicle_makes = <<"toyota">>
    /\ vehicle_types = <<"cars">>
    /\ batch_size = 1
    /\ site = <<>>
    /\ db \in {{}, {StoredA}}
    /\ fail_budget = 0
    /\ runs_left = 0
    /\ site_items_left = 0
    /\ prior = NoPriorRun
    /\ RunStart

SpecStore == InitStore /\ [][InsertListingsBatch]_vars

(***************************************************************************)
(* The overview extractor on its own: listing items of any content.        *)
(***************************************************************************)
\* an item that holds a title anchor with a protocol-relative href only
LiProtocolRelative ==
    Li(FALSE, TRUE, "", TRUE, "//img.example.com/x", FALSE, "", FALSE, "", <<>>)

BoxTexts == {"Galle", " Kandy ", "Rs. 5", "9 km", "2025-01-02", ""}

BoxLists == UNION {[1..k -> BoxTexts] : k \in 0..MaxBoxes}

\* the listing items handed to the extractor
Fragments ==
    {Li(FALSE, has_a, "", has_a /\ has_href, IF has_a /\ has_href THEN href ELSE "",
        FALSE, "", has_date, IF has_date THEN "2025-01-02" ELSE "", boxes) :
        has_a \in BOOLEAN, has_href \in BOOLEAN, href \in {"", "/buy/a", "//img.example.com/x"},
        has_date \in BOOLEAN, boxes \in BoxLists}
    \cup {LiA, LiBroken}

\* listing_overview_data = self._extract_listing_details(li), for the item
\* after those already extracted
ExtractListingDetails ==
    /\ Len(all_new_listings_scraped) < Len(li_tags)
    /\ all_new_listings_scraped' =
            Append(all_new_listings_scraped,
                   _extract_listing_details(li_tags[Len(all_new_listings_scraped) + 1]))
    /\ UNCHANGED <<config_vars, env_vars, pc, run_vars, seen_urls, current_batch_for_db,
                   make_i, type_i, page, li_tags, new_listings_on_page, returned,
                   run_ended, hist_vars, prior>>

InitExtract ==
    /\ vehicle_makes = <<"toyota">>
    /\ vehicle_types = <<"cars">>
    /\ batch_size = 1
    /\ site = <<>>
    /\ db = {}
    /\ fail_budget = 0
    /\ runs_left = 0
    /\ site_items_left = 0
    /\ prior = NoPriorRun
    /\ pc = "setup_driver"
    /\ driver = "none" /\ db_manager = FALSE /\ conn = "none"
    /\ seen_urls = {}
    /\ all_new_listings_scraped = <<>> /\ current_batch_for_db = <<>>
    /\ make_i = 1 /\ type_i = 1 /\ page = 1
    /\ \E li \in Fragments : li_tags = <<li>>
    /\ new_listings_on_page = 0
    /\ returned = "none" /\ run_ended = "none"
    /\ startup_seen = {} /\ page_fetches = <<>> /\ detail_fetches = <<>>
    /\ batches = <<>> /\ failures = {} /\ undelayed = FALSE
    /\ seen_at_fetch = {} /\ skipped = {} /\ pair_ends = <<>>

SpecExtract == InitExtract /\ [][ExtractListingDetails]_vars

(***************************************************************************)
(* The crawl with a freshness window configured: the recency filter of the *)
(* pipeline, between the ledger test and the marking of the URL.           *)
(***************************************************************************)
\* the configured freshness window, in days
FRESHNESS_WINDOW_DAYS == 1

\* the day of the run
Today == "2025-01-03"

Digits == "0123456789"

IsDigits(txt) == \A i \in 1..Len(txt) : Find(Digits, SubSeq(txt, i, i)) > 0

RECURSIVE ToNumber(_)
ToNumber(txt) ==
    IF txt = "" THEN 0
    ELSE 10 * ToNumber(Slice(txt, 1, Len(txt) - 1))
            + (Find(Digits, SubSeq(txt, Len(txt), Len(txt))) - 1)

IsLeap(year) == year % 4 = 0 /\ (year % 100 # 0 \/ year % 400 = 0)

DaysInMonth(year, month) ==
    IF month = 2 THEN (IF IsLeap(year) THEN 29 ELSE 28)
    ELSE IF month \in {4, 6, 9, 11} THEN 30 ELSE 31

\* what the date parser gives for a text that is no date
NoDate == [year |-> 0, month |-> 0, day |-> 0]

\* the date parser: a year-month-day text gives a date, anything else NoDate
ParseDate(txt) ==
    IF /\ Len(txt) = 10
       /\ SubSeq(txt, 5, 5) = "-" /\ SubSeq(txt, 8, 8) = "-"
       /\ IsDigits(SubSeq(txt, 1, 4)) /\ IsDigits(SubSeq(txt, 6, 7))
       /\ IsDigits(SubSeq(txt, 9, 10))
       /\ ToNumber(SubSeq(txt, 1, 4)) >= 1
       /\ ToNumber(SubSeq(txt, 6, 7)) \in 1..12
       /\ ToNumber(SubSeq(txt, 9, 10)) \in
                1..DaysInMonth(ToNumber(SubSeq(txt, 1, 4)), ToNumber(SubSeq(txt, 6, 7)))
    THEN [year |-> ToNumber(SubSeq(txt, 1, 4)), month |-> ToNumber(SubSeq(txt, 6, 7)),
          day |-> ToNumber(SubSeq(txt, 9, 10))]
    ELSE NoDate

DaysBeforeMonth == <<0, 31, 59, 90, 120, 151, 181, 212, 243, 273, 304, 334>>

\* the number of the day of a date, day 1 being 0001-01-01
Ordinal(date) ==
    365 * (date.year - 1) + ((date.year - 1) \div 4) - ((date.year - 1) \div 100)
        + ((date.year - 1) \div 400) + DaysBeforeMonth[date.month]
        + (IF date.month > 2 /\ IsLeap(date.year) THEN 1 ELSE 0) + date.day

\* the recency filter: the date cannot be parsed, or is older than the window
OutsideWindow(date_text) ==
    \/ ParseDate(date_text) = NoDate
    \/ Ordinal(ParseDate(Today)) - Ordinal(ParseDate(date_text)) > FRESHNESS_WINDOW_DAYS

\* listing items dated before the window, and with a date that is no date
LiStale == Li(FALSE, TRUE, "Alto", TRUE, "/buy/b", FALSE, "", TRUE, "2024-12-31", <<>>)
LiUndated == Li(FALSE, TRUE, "Vitz", TRUE, "buy/c", FALSE, "", TRUE, "yesterday", <<>>)

FreshnessItems == {LiA, LiStale, LiUndated, LiEmptyHref}

\* the body for the next item with no filter
ProcessListingUnfiltered == ProcessListing

\* the body of "for li in li_tags" for the next item, with the filter: a
\* listing that passes the ledger test and fails the filter is skipped
ProcessListingFiltered ==
    /\ pc = "items"
    /\ li_tags # <<>>
    /\ li_tags' = Tail(li_tags)
    /\ \E listing_overview_data \in {_extract_listing_details(Head(li_tags))} :
        \E post_url \in {Get(listing_overview_data, "post_url", None)} :
            IF /\ ~ShouldSkip(post_url, seen_urls)
               /\ OutsideWindow(Get(listing_overview_data, "date", ""))
            THEN /\ skipped' = skipped \cup {post_url}
                 /\ UNCHANGED <<db, fail_budget, seen_urls, all_new_listings_scraped,
                                current_batch_for_db, new_listings_on_page,
                                detail_fetches, batches, failures, undelayed>>
            ELSE ProcessOverview(listing_overview_data, post_url)
    /\ UNCHANGED <<config_vars, site, runs_left, site_items_left, pc, run_vars, make_i,
                   type_i, page, returned, run_ended, startup_seen, page_fetches,
                   seen_at_fetch, pair_ends, prior>>

FreshnessPages ==
    {PageOf(TRUE, items) : items \in UNION {[1..k -> FreshnessItems] : k \in 1..MaxItems}}

InitFresh ==
    /\ vehicle_makes = <<"toyota">>
    /\ vehicle_types = <<"cars">>
    /\ batch_size \in 1..MaxBatchSize
    /\ \E first \in FreshnessPages, second \in FreshnessPages \cup {PageOf(TRUE, <<>>)} :
        site = [key \in {<<"toyota", "cars", 1>>, <<"toyota", "cars", 2>>} |->
                    IF key[3] = 1 THEN first ELSE second]
    /\ db \in {{}, {StoredA}}
    /\ fail_budget = MaxFailures
    /\ runs_left = 0
    /\ site_items_left = 0
    /\ prior = NoPriorRun
    /\ RunStart

NextFresh ==
    \/ SetupDriver
    \/ DatabaseManagerInit
    \/ ScraperInit
    \/ FetchListingPageFails
    \/ FetchListingPage
    \/ ProcessListingFiltered
    \/ EndOfPage
    \/ FinalFlush
    \/ Finalizer
    \/ Finally

SpecFresh == InitFresh /\ [][NextFresh]_vars

(***************************************************************************)
(* The detail extractor on its own: detail pages of any content.           *)
(***************************************************************************)
CellTexts == {"YOM", " yom ", "2015", "Make", "Gear", ""}

\* the cells the selector returns for a detail page, in document order
CellLists == UNION {[1..k -> CellTexts] : k \in 0..MaxCells}

\* details_from_post = self._extract_post_details(post_url) for the listing
\* of LiA, the merge and the append to the result
VisitPost ==
    /\ detail_fetches = <<>>
    /\ \E fetched \in BOOLEAN :
        /\ fetched \/ fail_budget > 0
        /\ fail_budget' = IF fetched THEN fail_budget ELSE fail_budget - 1
        /\ failures' = IF fetched THEN failures ELSE failures \cup {"detail_fetch"}
        /\ undelayed' = ~fetched
        /\ all_new_listings_scraped' =
                Append(all_new_listings_scraped,
                       FullListingData(OverviewOf[LiA],
                                       _extract_post_details(fetched, site[UrlA])))
    /\ detail_fetches' = Append(detail_fetches, UrlA)
    /\ UNCHANGED <<config_vars, site, db, runs_left, site_items_left, pc, run_vars,
                   seen_urls, current_batch_for_db, make_i, type_i, page, li_tags,
                   new_listings_on_page, returned, run_ended, startup_seen,
                   page_fetches, batches, seen_at_fetch, skipped, pair_ends, prior>>

InitDetail ==
    /\ vehicle_makes = <<"toyota">>
    /\ vehicle_types = <<"cars">>
    /\ batch_size = 1
    /\ \E all_cells \in CellLists : site = [url \in {UrlA} |-> all_cells]
    /\ db = {}
    /\ fail_budget = MaxFailures
    /\ runs_left = 0
    /\ site_items_left = 0
    /\ prior = NoPriorRun
    /\ RunStart

SpecDetail == InitDetail /\ [][VisitPost]_vars

(***************************************************************************)
(* Properties.                                                             *)
(***************************************************************************)
Range(seq) == {seq[i] : i \in DOMAIN seq}

Last(seq) == seq[Len(seq)]

\* the step leaves the pagination of the current pair: on to the first page
\* of the next pair in configuration order, or to the final flush
LeavesPair ==
    /\ page' = 1
    /\ \/ pc' = "fetch" /\ make_i' = make_i /\ type_i' = type_i + 1
       \/ pc' = "fetch" /\ make_i' = make_i + 1 /\ type_i' = 1
                        /\ type_i = Len(vehicle_types)
       \/ pc' = "flush" /\ make_i = Len(vehicle_makes) /\ type_i = Len(vehicle_types)

\* every item of the fetched page is processed and none yielded a new URL
PageYieldedNothingNew ==
    pc = "items" /\ li_tags = <<>> /\ seen_urls = seen_at_fetch

\* C1, as stated: on every page, page 1 included, a page that contains
\* listing items none of which yields a new URL ends the pagination of its
\* pair without error, and the crawl moves on to the next pair
C1_EndsOnAnyPage ==
    [][PageYieldedNothingNew => (LeavesPair /\ failures' = failures)]_vars

\* C1, amended: on every page after the first, a page that contains listing
\* items none of which yields a new URL ends the pagination of its pair
\* without error, and the crawl moves on to the next pair (or to the flush)
C1_EndsOnLaterPage ==
    [][(PageYieldedNothingNew /\ page > 1) => (LeavesPair /\ failures' = failures)]_vars

\* a pair whose pagination ended on a later page that had items, none new
C1_Witness ==
    \E i \in DOMAIN pair_ends :
        /\ pair_ends[i].reason = "no_new"
        /\ pair_ends[i].page > 1
        /\ \E j \in DOMAIN page_fetches :
            /\ page_fetches[j].ok
            /\ page_fetches[j].make = pair_ends[i].make
            /\ page_fetches[j].type = pair_ends[i].type
            /\ page_fetches[j].page = pair_ends[i].page
            /\ \A k \in DOMAIN page_fetches :
                (k > j) => <<page_fetches[k].make, page_fetches[k].type>>
                            # <<pair_ends[i].make, pair_ends[i].type>>
        /\ Len(page_fetches) > i

\* C2: within one crawl the detail page of a URL is fetched at most once,
\* wherever the URL reappears, and never for a URL the ledger held at start
C2_DetailFetchedOnce ==
    /\ \A i, j \in DOMAIN detail_fetches :
        (i # j) => detail_fetches[i] # detail_fetches[j]
    /\ \A i \in DOMAIN detail_fetches : detail_fetches[i] \notin startup_seen

\* a URL fetched in this crawl came up again and was skipped, and so was a
\* URL of the ledger as seeded
C2_Witness ==
    /\ skipped \cap Range(detail_fetches) # {}
    /\ skipped \cap startup_seen # {}

\* the crawl of the current run is past the seeding of the ledger
Seeded == pc \in {"fetch", "items", "flush"}

\* the current run is the second, after a first run against the same site
SecondRun == prior.ran

\* the run has persisted nothing: every insert call it made inserted 0 rows
PersistedNothing == \A i \in DOMAIN batches : batches[i].inserted_count = 0

LeavesUnstored ==
    {"setup_driver", "connect_error", "create_table_error", "page_fetch",
     "sqlite_error", "raised"}

DetailFetchFails ==
    /\ pc = "items"
    /\ Len(detail_fetches') = Len(detail_fetches) + 1
    /\ undelayed'

\* the records handed to the insert call the step makes, if it makes one
SentInStep == IF Len(batches') > Len(batches) THEN Last(batches').records ELSE <<>>

\* C4, as stated: a failed detail fetch for a listing leaves the rest of the
\* page to be processed and the pagination of the pair going; the listing
\* is marked seen, appended to the result and to the pending batch, and
\* carries its seven detail fields, each the empty string
C4_FailedDetailKeepsListing ==
    [][DetailFetchFails =>
        /\ pc' = "items" /\ li_tags' = Tail(li_tags)
        /\ page' = page /\ make_i' = make_i /\ type_i' = type_i
        /\ new_listings_on_page' > 0
        /\ Last(detail_fetches') \in seen_urls'
        /\ Len(all_new_listings_scraped') = Len(all_new_listings_scraped) + 1
        /\ Last(all_new_listings_scraped').post_url = Last(detail_fetches')
        /\ Last(all_new_listings_scraped') \in
                Range(current_batch_for_db') \cup Range(SentInStep)
        /\ \A field \in DetailFields :
            /\ field \in DOMAIN Last(all_new_listings_scraped')
            /\ Last(all_new_listings_scraped')[field] = ""]_vars

\* the crawl is over, whether scrape_site returned or raised
CrawlOver == returned # "none"

\* ceil(m / b)
CeilDiv(m, b) == (m + b - 1) \div b

\* C5, as stated: with batch size B and M new listings in the run, there are
\* exactly ceil(M/B) insert calls; each call of the crawl carries exactly B
\* records, the one flush after all pairs carries M mod B, no call carries
\* an empty batch, and only the flush after the last pair carries fewer
C5_BatchCalls ==
    /\ \A i \in DOMAIN batches :
        /\ batches[i].records # <<>>
        /\ batches[i].phase = "crawl" => Len(batches[i].records) = batch_size
        /\ batches[i].phase = "flush" => i = Len(batches) /\ CrawlOver
    /\ CrawlOver =>
        LET M == Len(all_new_listings_scraped)
        IN  /\ Len(batches) = CeilDiv(M, batch_size)
            /\ (M % batch_size # 0) =>
                /\ Last(batches).phase = "flush"
                /\ Len(Last(batches).records) = M % batch_size
            /\ (M % batch_size = 0) => \A i \in DOMAIN batches : batches[i].phase = "crawl"

\* the post_url values of the records of a call
UrlsOf(records) == [i \in DOMAIN records |-> records[i].post_url]

\* scrape_site returned its list, every listing page was fetched and no
\* insert call raised
ScenarioRan == returned = "list" /\ failures \cap {"page_fetch", "raised"} = {}

\* C6: one pair (volvo, cars), batch size 2, empty ledger, three new
\* listings on page 1 and none on page 2: insert calls with [u1, u2], then
\* the trailing flush with [u3]; a returned list of length 3; exactly two
\* listing-page fetches for the pair
C6_Scenario ==
    ScenarioRan =>
        /\ Len(batches) = 2
        /\ UrlsOf(batches[1].records) = <<UrlA, UrlB>> /\ batches[1].phase = "crawl"
        /\ UrlsOf(batches[2].records) = <<UrlC>> /\ batches[2].phase = "flush"
        /\ Len(all_new_listings_scraped) = 3
        /\ UrlsOf(all_new_listings_scraped) = <<UrlA, UrlB, UrlC>>
        /\ Len(page_fetches) = 2
        /\ \A i \in 1..2 :
            /\ page_fetches[i].make = "volvo" /\ page_fetches[i].type = "cars"
            /\ page_fetches[i].page = i

\* the run of the scenario is over, with its three listings stored
C6_Witness ==
    /\ ScenarioRan /\ pc = "done"
    /\ vehicle_makes = <<"volvo">> /\ batch_size = 2
    /\ Len(batches) = 2 /\ Cardinality(db) = 3
    /\ startup_seen = {}

\* the overview of the item has no usable title link
NoUsableLink(li) == ~li.raises /\ (~li.has_a \/ ~li.has_href \/ li.href = "")

\* C7, as stated: an item with no anchor, or an anchor with no or an empty
\* href, yields an empty post_url and is discarded: nothing is added to the
\* ledger, no detail page is fetched, nothing goes to the result or a batch
C7_LinklessItemDiscarded ==
    [][(pc = "items" /\ li_tags # <<>> /\ NoUsableLink(Head(li_tags))) =>
        /\ OverviewOf[Head(li_tags)].post_url = ""
        /\ seen_urls' = seen_urls
        /\ detail_fetches' = detail_fetches
        /\ all_new_listings_scraped' = all_new_listings_scraped
        /\ current_batch_for_db' = current_batch_for_db
        /\ batches' = batches]_vars

\* the step is a listing-page fetch that fails
PageFetchFails ==
    /\ pc = "fetch"
    /\ Len(page_fetches') = Len(page_fetches) + 1
    /\ ~Last(page_fetches').ok

SamePair(a, b) == a.make = b.make /\ a.type = b.type

\* C8: a failed listing-page fetch ends the pagination of the current pair
\* only: the crawl goes on with the next pair in order, no later fetch is
\* for the pair that failed, and the ledger, the result and the pending
\* batch are as they were
C8_FailedPageEndsPairOnly ==
    /\ [][PageFetchFails =>
            /\ LeavesPair
            /\ returned' = "none"
            /\ seen_urls' = seen_urls
            /\ all_new_listings_scraped' = all_new_listings_scraped
            /\ current_batch_for_db' = current_batch_for_db
            /\ batches' = batches /\ db' = db]_vars
    /\ [](\A i, j \in DOMAIN page_fetches :
            (i < j /\ ~page_fetches[i].ok) => ~SamePair(page_fetches[i], page_fetches[j]))

\* a later page of the first pair failed to load while a listing was
\* pending, and the crawl went on to fetch the second pair
C8_Witness ==
    \E i \in DOMAIN page_fetches :
        /\ ~page_fetches[i].ok /\ page_fetches[i].page > 1
        /\ i < Len(page_fetches)
        /\ Last(page_fetches).ok /\ Last(page_fetches).page = 1
        /\ ~SamePair(Last(page_fetches), page_fetches[i])
        /\ current_batch_for_db # <<>>
        /\ seen_urls # startup_seen

\* C9, as stated: when run ends, on whatever path, the browser session and
\* the storage connection, if acquired, are released
C9_ResourcesReleased ==
    (pc = "done") => (driver # "open" /\ conn # "open")

\* setup went through: the crawl was entered
SetupDone == failures \cap {"setup_driver", "connect_error", "create_table_error"} = {}

\* C10, as stated: no failure after setup escapes the crawl: scrape_site
\* returns the accumulated list
C10_NothingEscapesCrawl ==
    /\ returned # "raised"
    /\ (pc \in {"finally", "done"} /\ SetupDone) => returned = "list"

\* the step makes an insert call that fails with a storage error
InsertFails ==
    /\ Len(batches') = Len(batches) + 1
    /\ Last(batches').outcome # "ok"

\* C11, as stated: an insert call that fails with a storage error reports 0
\* inserted and stores none of its records; the caller clears the pending
\* batch and does not send its records again, the listings stay in the
\* result, and the crawl continues
C11_FailedInsertDropsBatch ==
    /\ [][InsertFails =>
            /\ Last(batches').outcome = "sqlite_error"
            /\ Last(batches').inserted_count = 0
            /\ db' = db
            /\ Last(batches').phase = "crawl" => current_batch_for_db' = <<>>
            /\ Range(Last(batches').records) \subseteq Range(all_new_listings_scraped')
            /\ returned' # "raised"]_vars
    /\ [](\A i, j \in DOMAIN batches :
            (i < j /\ batches[i].outcome # "ok") =>
                Range(batches[i].records) \cap Range(batches[j].records) = {})

\* the post_url values stored
StoredUrls(rows) == {r.post_url : r \in rows}

\* the first record of the call with the post_url
FirstWith(records, url) ==
    records[CHOOSE i \in DOMAIN records :
                /\ Get(records[i], "post_url", "") = url
                /\ \A j \in 1..(i - 1) : Get(records[j], "post_url", "") # url]

\* C12: the store never holds two rows with one post_url; a successful
\* insert call leaves the stored rows as they are, adds for each post_url
\* not yet stored the first record of the call that has it, and returns
\* the number of post_url values it added
C12_OneRowPerUrl ==
    /\ [](\A r1, r2 \in db : (r1.post_url = r2.post_url) => r1 = r2)
    /\ [][(Len(batches') = Len(batches) + 1 /\ Last(batches').outcome = "ok") =>
            /\ db \subseteq db'
            /\ StoredUrls(db') = StoredUrls(db) \cup
                    {Get(rec, "post_url", "") : rec \in Range(Last(batches').records)}
            /\ \A row \in db' \ db :
                    row = ToRow(FirstWith(Last(batches').records, row.post_url))
            /\ Last(batches').inserted_count
                    = Cardinality(StoredUrls(db') \ StoredUrls(db))]_vars

\* a call with two records of one new post_url added one row, and a later
\* call with a stored post_url added none
C12_Witness ==
    \E i, j \in DOMAIN batches :
        /\ i < j
        /\ batches[i].phase = "store" /\ batches[i].outcome = "ok"
        /\ Len(batches[i].records) = 2
        /\ batches[i].records[1] # batches[i].records[2]
        /\ Get(batches[i].records[1], "post_url", "") = Get(batches[i].records[2], "post_url", "")
        /\ batches[i].inserted_count = 1
        /\ batches[j].outcome = "ok" /\ batches[j].records # <<>>
        /\ batches[j].inserted_count = 0
        /\ Cardinality(db) = 1

\* C13: the ledger only grows: no step of a run removes a URL from it, a
\* failed detail fetch or a failed insert included, and once seeded it
\* contains every URL loaded from storage at startup
C13_LedgerGrows ==
    /\ [][seen_urls \subseteq seen_urls']_vars
    /\ [](startup_seen \subseteq seen_urls)

\* a run that started from a stored URL, added one, and met a failure of a
\* detail fetch or an insert, is over
C13_Witness ==
    /\ pc = "done" /\ returned = "list"
    /\ startup_seen # {}
    /\ startup_seen \subseteq seen_urls /\ seen_urls # startup_seen
    /\ failures \cap {"detail_fetch", "sqlite_error", "raised"} # {}

\* the step issues a fetch, of a listing page or of a detail page
Fetches ==
    \/ Len(page_fetches') > Len(page_fetches)
    \/ Len(detail_fetches') > Len(detail_fetches)

\* C14, as stated: a fetch is never issued when the fetch before it, failed
\* or not, was followed by no delay
C14_DelayAfterEveryFetch == [][Fetches => ~undelayed]_vars

\* the overview fields other than title and post_url
OtherOverviewFields == {"image_url", "date", "location", "overview_price", "mileage"}

\* C16, as stated: for an item that holds only a title anchor with href
\* //img.example.com/x, the overview has post_url https://img.example.com/x
\* and every other field present and empty
C16_ProtocolRelativeOverview ==
    \A i \in DOMAIN all_new_listings_scraped :
        (li_tags[i] = LiProtocolRelative) =>
            /\ "post_url" \in DOMAIN all_new_listings_scraped[i]
            /\ all_new_listings_scraped[i].post_url = "https://img.example.com/x"
            /\ \A field \in OtherOverviewFields :
                /\ field \in DOMAIN all_new_listings_scraped[i]
                /\ all_new_listings_scraped[i][field] = ""

\* the text of a box is neither mileage nor price nor empty nor the date
Unclassified(txt, date) ==
    /\ ~Contains("km", Lower(txt))
    /\ ~Contains("rs", Lower(txt)) /\ ~Contains("negotiable", Lower(txt))
    /\ txt # "" /\ txt # date

\* C17, as stated: when several text boxes of an item are unclassified,
\* location is the first of them in document order
C17_FirstUnclassifiedIsLocation ==
    \A i \in DOMAIN all_new_listings_scraped :
        \A k \in DOMAIN li_tags[i].boxes :
            (/\ ~li_tags[i].raises
             /\ Unclassified(Strip(li_tags[i].boxes[k]), all_new_listings_scraped[i].date)
             /\ \A j \in 1..(k - 1) :
                    ~Unclassified(Strip(li_tags[i].boxes[j]), all_new_listings_scraped[i].date))
            => all_new_listings_scraped[i].location = Strip(li_tags[i].boxes[k])

\* the step appends a listing to the result
AppendsListing == Len(all_new_listings_scraped') > Len(all_new_listings_scraped)

\* C18: a listing enters the result with the make and the type of the pair
\* whose pagination is under way, whatever the page says about make or type;
\* listings already in the result are left as they are, and the records of
\* every batch sent and of the pending batch are listings of the result
C18_MakeTypeFromContext ==
    /\ [][AppendsListing =>
            /\ Last(all_new_listings_scraped').make = make
            /\ Last(all_new_listings_scraped').type = vehicle_type
            /\ all_new_listings_scraped' =
                    Append(all_new_listings_scraped, Last(all_new_listings_scraped'))]_vars
    /\ [](/\ Range(current_batch_for_db) \subseteq Range(all_new_listings_scraped)
          /\ \A i \in DOMAIN batches :
                Range(batches[i].records) \subseteq Range(all_new_listings_scraped))

\* a listing whose detail page names the make Toyota was discovered under
\* nissan, and was sent in a batch
C18_Witness ==
    /\ returned = "list"
    /\ \E i \in DOMAIN all_new_listings_scraped :
        /\ Get(all_new_listings_scraped[i], "post_make", "") = "Toyota"
        /\ all_new_listings_scraped[i].make = "nissan"
        /\ \E j \in DOMAIN batches : all_new_listings_scraped[i] \in Range(batches[j].records)

\* the configured pairs, make-major and type-minor
PairsInOrder ==
    [k \in 1..(Len(vehicle_makes) * Len(vehicle_types)) |->
        <<vehicle_makes[((k - 1) \div Len(vehicle_types)) + 1],
          vehicle_types[((k - 1) % Len(vehicle_types)) + 1]>>]

\* the pair of the i-th listing-page fetch
FetchedPair(i) == <<page_fetches[i].make, page_fetches[i].type>>

\* the first-page fetches among the first i listing-page fetches
FirstPages(i) == {j \in 1..i : page_fetches[j].page = 1}

\* C19: the first-page fetches go through the configured pairs make-major
\* and type-minor, each pair once; any other fetch is of the page after the
\* one fetched before it, for the same pair; the URL is the search URL of
\* the pair, with ?page=N exactly when N > 1; when the crawl is over every
\* configured pair was visited
C19_PairAndPageOrder ==
    /\ \A i \in DOMAIN page_fetches :
        /\ Cardinality(FirstPages(i)) \in DOMAIN PairsInOrder
        /\ FetchedPair(i) = PairsInOrder[Cardinality(FirstPages(i))]
        /\ page_fetches[i].page > 1 =>
                /\ i > 1
                /\ page_fetches[i].page = page_fetches[i - 1].page + 1
        /\ Contains("?page=", page_fetches[i].url) <=> page_fetches[i].page > 1
        /\ page_fetches[i].url =
                RIYASWANA_BASE_URL \o "/search/" \o page_fetches[i].type \o "/"
                    \o page_fetches[i].make
                    \o (IF page_fetches[i].page > 1
                        THEN "?page=" \o ToString(page_fetches[i].page) ELSE "")
    /\ returned # "none" =>
            Cardinality(FirstPages(Len(page_fetches))) = Len(PairsInOrder)

\* a finished crawl of four pairs with a second page fetched for the third
C19_Witness ==
    /\ returned = "list"
    /\ Len(PairsInOrder) = 4
    /\ PairsInOrder[2] = <<"toyota", "vans">>
    /\ \E i \in DOMAIN page_fetches :
        /\ page_fetches[i].page = 2
        /\ FetchedPair(i) = <<"nissan", "cars">>

\* the step fetches a listing page that has no results container, or a
\* container with no listing item
FetchesEmptyPage ==
    /\ Len(page_fetches') > Len(page_fetches)
    /\ Last(page_fetches').ok
    /\ <<make, vehicle_type, page>> \in DOMAIN site'
    /\ \/ ~site'[<<make, vehicle_type, page>>].container
       \/ site'[<<make, vehicle_type, page>>].items = <<>>

\* C20: the fetch of a page with no results container, or with a container
\* holding no listing item, ends the pagination of the pair at any page
\* number, with no error and no detail fetch, and leaves the ledger, the
\* result and the pending batch as they are
C20_EmptyPageEndsPair ==
    [][FetchesEmptyPage =>
        /\ LeavesPair
        /\ failures' = failures /\ returned' = returned
        /\ detail_fetches' = detail_fetches
        /\ seen_urls' = seen_urls
        /\ all_new_listings_scraped' = all_new_listings_scraped
        /\ current_batch_for_db' = current_batch_for_db]_vars

\* a crawl met a first page with no container and ended another pair on a
\* second page with a container and no items, with a listing pending
C20_Witness ==
    /\ \E i \in DOMAIN pair_ends : pair_ends[i].reason = "no_container" /\ pair_ends[i].page = 1
    /\ \E i \in DOMAIN pair_ends : pair_ends[i].reason = "no_items" /\ pair_ends[i].page = 2
    /\ <<"toyota", "cars", 2>> \in DOMAIN site
    /\ site[<<"toyota", "cars", 2>>] = PageOf(TRUE, <<>>)
    /\ current_batch_for_db # <<>>
    /\ failures = {}

\* the step handles a listing item that passes the ledger test and whose
\* overview date cannot be parsed or is older than the window
HandlesStaleListing ==
    /\ pc = "items" /\ li_tags # <<>> /\ li_tags' = Tail(li_tags)
    /\ ~ShouldSkip(Get(_extract_listing_details(Head(li_tags)), "post_url", None), seen_urls)
    /\ OutsideWindow(Get(_extract_listing_details(Head(li_tags)), "date", ""))

LabelOfField ==
    [field \in DetailFields |->
        CASE field = "engine_cc" -> "engine (cc)"
          [] field = "yom" -> "yom"
          [] field = "post_make" -> "make"
          [] field = "model" -> "model"
          [] field = "detail_price" -> "price"
          [] field = "gear" -> "gear"
          [] field = "fuel_type" -> "fuel type"]

\* the pairs (0,1), (2,3), ... of the cells whose label, lower-cased, is label
PairsLabelled(all_cells, label) ==
    {k \in 1..(Len(all_cells) \div 2) : Lower(Strip(all_cells[2 * k - 1])) = label}

\* the value a field has by the pairing: that of the last pair with its
\* label, the empty string when no pair has it
PairedValue(all_cells, label) ==
    IF PairsLabelled(all_cells, label) = {} THEN ""
    ELSE Strip(all_cells[2 * (CHOOSE k \in PairsLabelled(all_cells, label) :
                                \A j \in PairsLabelled(all_cells, label) : j <= k)])

\* C21, as stated: the detail mapping of a listing always has the seven
\* fixed fields, each with the value its label has by the pairing of the
\* cells in document order, labels lower-cased and a trailing unpaired cell
\* dropped, and the empty string when the label is absent
C21_SevenDetailFields ==
    \A i \in DOMAIN all_new_listings_scraped :
        \A field \in DetailFields :
            /\ field \in DOMAIN all_new_listings_scraped[i]
            /\ all_new_listings_scraped[i][field] = PairedValue(site[UrlA], LabelOfField[field])

\* the listing pages fetched so far for a pair
PagesFetched(pair) == {i \in DOMAIN page_fetches : FetchedPair(i) = pair}

\* the listings discovered so far under a pair, one for each URL added to
\* the ledger under it
AddedUnder(pair) ==
    {i \in DOMAIN all_new_listings_scraped :
        <<all_new_listings_scraped[i].make, all_new_listings_scraped[i].type>> = pair}

\* the step goes from a page after the first on to the next page of the pair
GoesOnAfterLaterPage == pc = "items" /\ page > 1 /\ page' = page + 1

\* C22: every run terminates; a page after the first that does not end the
\* pagination has added a URL to the ledger, and the listing pages fetched
\* for a pair are at most 2 plus the URLs added to the ledger under it
C22_Terminates ==
    /\ <>(pc = "done")
    /\ [][GoesOnAfterLaterPage => (seen_at_fetch \subseteq seen_urls /\ seen_at_fetch # seen_urls)]_vars
    /\ [](\A k \in DOMAIN PairsInOrder :
            Cardinality(PagesFetched(PairsInOrder[k]))
                <= 2 + Cardinality(AddedUnder(PairsInOrder[k])))

\* a finished run that fetched three listing pages for a pair under which
\* one URL was added
C22_Witness ==
    /\ pc = "done"
    /\ \E k \in DOMAIN PairsInOrder :
        /\ Cardinality(PagesFetched(PairsInOrder[k])) = 3
        /\ Cardinality(AddedUnder(PairsInOrder[k])) = 1

\* the records of the first n insert calls, one after the other
RECURSIVE HandedToStorage(_)
HandedToStorage(n) ==
    IF n = 0 THEN <<>> ELSE HandedToStorage(n - 1) \o batches[n].records

\* no insert call raised so far
NoInsertRaised == "raised" \notin failures

\* C23: when no insert call raises, the batches handed to storage, in call
\* order, make up the returned list; until scrape_site returns, they and
\* the pending batch make up the list accumulated so far
C23_BatchesMakeUpResult ==
    NoInsertRaised =>
        /\ returned = "list" => HandedToStorage(Len(batches)) = all_new_listings_scraped
        /\ returned = "none" =>
                HandedToStorage(Len(batches)) \o current_batch_for_db
                    = all_new_listings_scraped

\* a returned list of three listings, handed to storage in a full batch of
\* the crawl and in the final flush, with an insert call that met a storage
\* error
C23_Witness ==
    /\ returned = "list" /\ NoInsertRaised
    /\ Len(all_new_listings_scraped) = 3
    /\ Len(batches) = 2
    /\ batches[1].phase = "crawl" /\ batches[2].phase = "flush"
    /\ "sqlite_error" \in failures

\* the post_url values of the listings of the result
ResultUrls == {all_new_listings_scraped[i].post_url : i \in DOMAIN all_new_listings_scraped}

\* C24: the post_urls of the returned list are pairwise distinct, none of
\* them was in the ledger seeded at startup, and when no insert call raises
\* they are the URLs added to the ledger during the run
C24_ReturnedUrlsAreTheNewOnes ==
    returned = "list" =>
        /\ \A i, j \in DOMAIN all_new_listings_scraped :
                all_new_listings_scraped[i].post_url = all_new_listings_scraped[j].post_url
                    => i = j
        /\ ResultUrls \cap startup_seen = {}
        /\ NoInsertRaised => ResultUrls = seen_urls \ startup_seen

\* a returned list of two listings, from a run seeded with a stored URL that
\* a page showed again
C24_Witness ==
    /\ returned = "list" /\ NoInsertRaised
    /\ startup_seen = {UrlA}
    /\ UrlA \in skipped
    /\ Len(all_new_listings_scraped) = 2

\* the orchestrator is about to fetch a listing page or to process an item
AtLoopHead == pc = "fetch" \/ (pc = "items" /\ li_tags # <<>>)

\* C25: when no insert call raises, the pending batch holds fewer than
\* batch_size listings whenever a listing page is about to be fetched or a
\* listing item to be processed, and neither it nor a batch handed to
\* storage ever holds more than batch_size listings
C25_PendingBelowBatchSize ==
    (batch_size >= 1 /\ NoInsertRaised) =>
        /\ AtLoopHead => Len(current_batch_for_db) < batch_size
        /\ Len(current_batch_for_db) <= batch_size
        /\ \A i \in DOMAIN batches : Len(batches[i].records) <= batch_size

\* with batch size 2, a listing page is about to be fetched with one listing
\* pending, after a full batch was handed to storage
C25_Witness ==
    /\ AtLoopHead /\ pc = "fetch" /\ NoInsertRaised
    /\ batch_size = 2
    /\ Len(current_batch_for_db) = 1
    /\ \E i \in DOMAIN batches : Len(batches[i].records) = 2

====
